---- MODULE Spec2Model ----
(***************************************************************************)
(* Model of the two pieces of logic of documents/models.py:                *)
(*   - ConfigurationOptionManager (__getattr__, set_config, _get_default)  *)
(*     over the ConfigurationOption table and the process environment;     *)
(*   - FileInfo.from_filename (rewrite rules, extension split, REGEXES);   *)
(* of util_call_with_backoff (documents/tests/utils.py) and of             *)
(* get_ocr_settings (paperless_tesseract/setting_schema.py).               *)
(* Strings are sequences of one-character strings, so that conversions     *)
(* (str(), int(), bool(), regex matching) are computed, not assumed.       *)
(***************************************************************************)
EXTENDS Integers, Sequences, FiniteSets, TLC

VARIABLES
  store,     \* the ConfigurationOption table
  env,       \* os.environ, the PAPERLESS_<key> variables
  last,      \* the last call on the manager and its outcome
  pre,       \* the table before that call
  rules,     \* settings.FILENAME_PARSE_TRANSFORMS
  fname,     \* the argument of the last FileInfo.from_filename call
  filename,  \* its local variable filename after the rewrite loop
  info,      \* what it returned
  reader,    \* a __getattr__ call in progress beside set_config calls
  backoff,   \* a util_call_with_backoff call: its locals and its position
  ocr        \* the OcrSettings row, the settings and the last get_ocr_settings

cfgVars == <<store, env, last, pre>>
fileVars == <<rules, fname, filename, info>>
vars == <<store, env, last, pre, rules, fname, filename, info, reader,
          backoff, ocr>>

(***************************************************************************)
(* Bounds of the model.                                                    *)
(***************************************************************************)
\* set_config is tried with the integers 0..MaxInt (and one two-digit one).
MaxInt == 1
\* Filenames are the strings over Alphabet up to MaxLen + 1 characters, and
\* the date prefixes followed by a string of up to MaxLen characters.
MaxLen == 2
\* The rewrite rule lists tried have up to this many rules.
MaxRules == 2

(***************************************************************************)
(* Python values.  A value is a record with a type tag and one payload     *)
(* field per type, so that values of different types can be compared.      *)
(***************************************************************************)
StrV(s) == [t |-> "str", s |-> s, n |-> 0, b |-> FALSE]
IntV(n) == [t |-> "int", s |-> <<>>, n |-> n, b |-> FALSE]
BoolV(b) == [t |-> "bool", s |-> <<>>, n |-> 0, b |-> b]
NoneV == [t |-> "NoneType", s |-> <<>>, n |-> 0, b |-> FALSE]

\* Python's type(value).
TypeOf(v) == v.t

\* The printable ASCII characters, from code 32 on (the grave accent,
\* which a model string cannot hold, by its name).
Ascii ==
  <<
   " ", "!", "\"", "#", "$", "%", "&", "'", "(", ")", "*", "+",
   ",", "-", ".", "/", "0", "1", "2", "3", "4", "5", "6", "7",
   "8", "9", ":", ";", "<", "=", ">", "?", "@", "A", "B", "C",
   "D", "E", "F", "G", "H", "I", "J", "K", "L", "M", "N", "O",
   "P", "Q", "R", "S", "T", "U", "V", "W", "X", "Y", "Z", "[",
   "\\", "]", "^", "_", "U+0060", "a", "b", "c", "d", "e", "f", "g",
   "h", "i", "j", "k", "l", "m", "n", "o", "p", "q", "r", "s",
   "t", "u", "v", "w", "x", "y", "z", "{", "|", "}", "~">>

HexDigits == <<"0", "1", "2", "3", "4", "5", "6", "7", "8", "9",
               "A", "B", "C", "D", "E", "F">>
RECURSIVE NatToHex(_)
NatToHex(n) == IF n < 16 THEN HexDigits[n + 1]
               ELSE NatToHex(n \div 16) \o HexDigits[(n % 16) + 1]

\* chr(code) as an element of a string: the character itself when a model
\* string can hold it, else its name U+XXXX.
Chr(code) ==
  CASE code = 9 -> "\t"
    [] code = 10 -> "\n"
    [] code = 12 -> "\f"
    [] code = 13 -> "\r"
    [] code >= 32 /\ code <= 126 -> Ascii[code - 31]
    [] code < 16 -> "U+000" \o NatToHex(code)
    [] code < 256 -> "U+00" \o NatToHex(code)
    [] code < 4096 -> "U+0" \o NatToHex(code)
    [] OTHER -> "U+" \o NatToHex(code)

Digits == <<"0", "1", "2", "3", "4", "5", "6", "7", "8", "9">>

\* The code points of the zeros of the decimal digits of Unicode (category
\* Nd, Unicode 14): each is followed by its digits 1 to 9.
DigitZeros ==
  {48, 1632, 1776, 1984, 2406, 2534, 2662, 2790, 2918, 3046, 3174, 3302,
   3430, 3558, 3664, 3792, 3872, 4160, 4240, 6112, 6160, 6470, 6608, 6784,
   6800, 6992, 7088, 7232, 7248, 42528, 43216, 43264, 43472, 43504, 43600,
   44016, 65296, 66720, 68912, 69734, 69872, 69942, 70096, 70384, 70736,
   70864, 71248, 71360, 71472, 71904, 72016, 72784, 73040, 73120, 92768,
   92864, 93008, 120782, 120792, 120802, 120812, 120822, 123200, 123632,
   125264, 130032}

\* The decimal digits by value: UnicodeDigits[d] are the characters whose
\* digit value is d.
UnicodeDigits == [d \in 0..9 |-> {Chr(z + d) : z \in DigitZeros}]

\* A character "\d" matches and int() reads as a digit.
IsDigit(c) == \E d \in 0..9 : c \in UnicodeDigits[d]

DigitVal(c) == CHOOSE d \in 0..9 : c \in UnicodeDigits[d]

\* One of the characters 0 to 9.
IsAsciiDigit(c) == \E i \in 1..10 : Digits[i] = c

\* str(n) for an int n >= 0: its decimal digits.
RECURSIVE NatToStr(_)
NatToStr(n) == IF n < 10 THEN <<Digits[n + 1]>>
               ELSE NatToStr(n \div 10) \o <<Digits[(n % 10) + 1]>>

\* str(value), as CharField.to_python applies it to a value that is not a str.
PyStr(v) == CASE v.t = "str" -> v.s
              [] v.t = "int" -> IF v.n < 0 THEN <<"-">> \o NatToStr(-v.n)
                                ELSE NatToStr(v.n)
              [] v.t = "bool" -> IF v.b THEN <<"T", "r", "u", "e">>
                                 ELSE <<"F", "a", "l", "s", "e">>
              [] OTHER -> <<"N", "o", "n", "e">>

\* The value of a run of decimal digits.
RECURSIVE DigitsToNat(_)
DigitsToNat(s) == IF s = <<>> THEN 0
                  ELSE 10 * DigitsToNat(SubSeq(s, 1, Len(s) - 1))
                       + DigitVal(s[Len(s)])

\* The whitespace int() strips from both ends of its argument: the ASCII
\* whitespace and the Unicode characters that are spaces, but not the
\* separators U+001C to U+001F.
IntWhitespace ==
  {" ", "\t", "\n", "\r", "\f"}
    \cup {Chr(c) : c \in {11, 133, 160, 5760, 8232, 8233, 8239, 8287, 12288}}
    \cup {Chr(c) : c \in 8192..8202}

RECURSIVE StripLeft(_)
StripLeft(s) == IF s # <<>> /\ s[1] \in IntWhitespace THEN StripLeft(Tail(s)) ELSE s

RECURSIVE StripRight(_)
StripRight(s) == IF s # <<>> /\ s[Len(s)] \in IntWhitespace
                 THEN StripRight(SubSeq(s, 1, Len(s) - 1)) ELSE s

\* The argument of int() without the whitespace around it and without
\* its sign.
Unsigned(s) ==
  LET b == StripLeft(StripRight(s))
  IN IF b # <<>> /\ b[1] \in {"-", "+"} THEN Tail(b) ELSE b

\* Decimal digits, with single underscores between digits.
DigitsUnderscored(s) ==
  /\ s # <<>>
  /\ IsDigit(s[1])
  /\ IsDigit(s[Len(s)])
  /\ \A i \in 1..Len(s) :
       \/ IsDigit(s[i])
       \/ s[i] = "_" /\ IsDigit(s[i - 1]) /\ IsDigit(s[i + 1])

\* int(s) accepts whitespace, an optional sign, and digits that may be
\* grouped by underscores.
IntParses(s) == DigitsUnderscored(Unsigned(s))

IntOf(s) ==
  LET b == StripLeft(StripRight(s))
      n == DigitsToNat(SelectSeq(Unsigned(s), IsDigit))
  IN IF b[1] = "-" THEN 0 - n ELSE n

(***************************************************************************)
(* The registry.                                                           *)
(***************************************************************************)
CONFIGURATION_KEYS ==
  [k \in {"OCR_LANGUAGE", "OCR_MODE", "OCR_SKIP_ARCHIVE_FILE", "OCR_CLEAN",
          "OCR_DESKEW", "OCR_ROTATE_PAGES", "OCR_ROTATE_PAGES_THRESHOLD",
          "OCR_OUTPUT_TYPE", "OCR_PAGES", "OCR_IMAGE_DPI",
          "OCR_MAX_IMAGE_PIXELS", "OCR_USER_ARGS",
          "NUMBER_OF_SUGGESTED_DATES", "IGNORE_DATES", "DATE_ORDER"} |->
     CASE k = "OCR_LANGUAGE" -> [type |-> "str", default |-> StrV(<<"e", "n", "g">>)]
       [] k = "OCR_MODE" -> [type |-> "str", default |-> StrV(<<"s", "k", "i", "p">>)]
       [] k = "OCR_SKIP_ARCHIVE_FILE" ->
            [type |-> "str", default |-> StrV(<<"n", "e", "v", "e", "r">>)]
       [] k = "OCR_CLEAN" -> [type |-> "str", default |-> StrV(<<"c", "l", "e", "a", "n">>)]
       [] k = "OCR_DESKEW" -> [type |-> "bool", default |-> BoolV(TRUE)]
       [] k = "OCR_ROTATE_PAGES" -> [type |-> "bool", default |-> BoolV(TRUE)]
       [] k = "OCR_ROTATE_PAGES_THRESHOLD" -> [type |-> "bool", default |-> BoolV(TRUE)]
       [] k = "OCR_OUTPUT_TYPE" -> [type |-> "str", default |-> StrV(<<"p", "d", "f", "a">>)]
       [] k = "OCR_PAGES" -> [type |-> "int", default |-> IntV(0)]
       [] k = "OCR_IMAGE_DPI" -> [type |-> "int", default |-> NoneV]
       [] k = "OCR_MAX_IMAGE_PIXELS" -> [type |-> "int", default |-> NoneV]
       [] k = "OCR_USER_ARGS" -> [type |-> "str", default |-> NoneV]
       [] k = "NUMBER_OF_SUGGESTED_DATES" -> [type |-> "int", default |-> IntV(3)]
       [] k = "IGNORE_DATES" -> [type |-> "str", default |-> StrV(<<>>)]
       [] OTHER -> [type |-> "str", default |-> StrV(<<"D", "M", "Y">>)]]

Registered(k) == k \in DOMAIN CONFIGURATION_KEYS

(***************************************************************************)
(* The ConfigurationOption table and the process environment.              *)
(* store[k] is the row whose key is k (key is unique): absent, holding     *)
(* NULL, or holding a string.  env[k] is os.environ["PAPERLESS_" + k].     *)
(***************************************************************************)
NoRow == [row |-> FALSE, null |-> TRUE, value |-> <<>>]
NullRow == [row |-> TRUE, null |-> TRUE, value |-> <<>>]
Row(s) == [row |-> TRUE, null |-> FALSE, value |-> s]

NoEnv == [set |-> FALSE, value |-> <<>>]
EnvVar(s) == [set |-> TRUE, value |-> s]

\* The keys the model reads and writes: one registered key of each declared
\* type (with and without a default) and one key that is not registered.
Keys == {"OCR_LANGUAGE", "OCR_DESKEW", "OCR_IMAGE_DPI", "UNKNOWN_KEY"}

\* The values set_config is called with.
SetValues == {StrV(<<>>), StrV(<<"e", "n", "g">>), BoolV(TRUE), BoolV(FALSE), IntV(10)}
             \cup {IntV(n) : n \in 0..MaxInt}

\* The strings a row of key k is created with.
RowValues(k) ==
  IF Registered(k)
  THEN {PyStr(v) : v \in {w \in SetValues : w.t = CONFIGURATION_KEYS[k].type}}
       \cup (IF CONFIGURATION_KEYS[k].type = "int"
             THEN {<<"x">>, <<" ", "7">>, <<Chr(11), "-", "7">>} ELSE {})
  ELSE {<<"e", "n", "g">>}

EnvValues == {<<"7">>}

\* The outcome of a call: the exception it raised ("none" if it returned)
\* and the value it returned.
Returned(v) == [err |-> "none", ret |-> v]
Raised(e) == [err |-> e, ret |-> NoneV]

\* CONFIGURATION_KEYS[item]["type"](value): the declared type applied to the
\* stored string.  int() raises ValueError on a string that is no integer;
\* bool() of a string is its non-emptiness.
Coerce(type, s) ==
  CASE type = "str" -> Returned(StrV(s))
    [] type = "int" -> IF IntParses(s) THEN Returned(IntV(IntOf(s)))
                       ELSE Raised("ValueError")
    [] OTHER -> Returned(BoolV(s # <<>>))

\* A mutant of get_default: the registry default is preferred to the
\* environment variable.
get_default_DefaultFirst(ev, key) ==
  IF CONFIGURATION_KEYS[key].default # NoneV
  THEN Returned(CONFIGURATION_KEYS[key].default)
  ELSE IF ev[key].set THEN Returned(StrV(ev[key].value))
  ELSE Returned(NoneV)

\* A mutant of get_default: a key whose default is None is an error.
get_default_NoneRaises(ev, key) ==
  IF ev[key].set THEN Returned(StrV(ev[key].value))
  ELSE IF CONFIGURATION_KEYS[key].default = NoneV THEN Raised("KeyError")
  ELSE Returned(CONFIGURATION_KEYS[key].default)

\* ConfigurationOptionManager._get_default.  Every registry entry carries a
\* "default" item (possibly None), so the final else is never taken.
get_default(ev, key) ==
  IF ev[key].set THEN Returned(StrV(ev[key].value))
  ELSE Returned(CONFIGURATION_KEYS[key].default)

\* query.exists() and query.first().value: a row is there and its value is
\* truthy (neither NULL nor the empty string).
HasStoredValue(st, item) ==
  st[item].row /\ ~st[item].null /\ st[item].value # <<>>

\* type(query.first().value) on the row r the query finds; without a row
\* first() is None, and a NULL value is None.
CoerceRow(type, r) ==
  IF ~r.row THEN Raised("AttributeError")
  ELSE IF ~r.null THEN Coerce(type, r.value)
  ELSE CASE type = "str" -> Returned(StrV(PyStr(NoneV)))
         [] type = "int" -> Raised("TypeError")
         [] OTHER -> Returned(BoolV(FALSE))

\* A mutant of getattr_rows: an unknown key is read like a key without a
\* row.
getattr_rows_Tolerant(ev, item, r1, r2, r3) ==
  IF ~Registered(item) THEN Returned(NoneV)
  ELSE IF ~r1.row THEN get_default(ev, item)
  ELSE IF ~r2.row THEN Raised("AttributeError")
  ELSE IF ~r2.null /\ r2.value # <<>>
  THEN CoerceRow(CONFIGURATION_KEYS[item].type, r3)
  ELSE get_default(ev, item)

\* A mutant of getattr_rows: the environment variable wins over the stored
\* row.
getattr_rows_EnvFirst(ev, item, r1, r2, r3) ==
  IF ~Registered(item) THEN Raised("AttributeError")
  ELSE IF ev[item].set THEN Returned(StrV(ev[item].value))
  ELSE IF ~r1.row THEN get_default(ev, item)
  ELSE IF ~r2.row THEN Raised("AttributeError")
  ELSE IF ~r2.null /\ r2.value # <<>>
  THEN CoerceRow(CONFIGURATION_KEYS[item].type, r3)
  ELSE get_default(ev, item)

\* ConfigurationOptionManager.__getattr__, given what each of its three
\* queries finds: r1 for query.exists(), r2 for the query.first() whose
\* value is tested for truth and r3 for the query.first() whose value is
\* returned.  A query after the one that decides is not issued.
getattr_rows(ev, item, r1, r2, r3) ==
  IF ~Registered(item) THEN Raised("AttributeError")
  ELSE IF ~r1.row THEN get_default(ev, item)
  ELSE IF ~r2.row THEN Raised("AttributeError")
  ELSE IF ~r2.null /\ r2.value # <<>>
  THEN CoerceRow(CONFIGURATION_KEYS[item].type, r3)
  ELSE get_default(ev, item)

\* __getattr__ when nothing writes the table between its queries.
getattr(st, ev, item) == getattr_rows(ev, item, st[item], st[item], st[item])

\* self.filter(key=key).update(value=value): every row whose key is key gets
\* the value, converted to a string by the CharField; no row is created.
Update(st, key, value) ==
  [st EXCEPT ![key] = IF @.row THEN Row(PyStr(value)) ELSE @]

\* A mutant of set_config: isinstance() instead of an exact type match, so a
\* bool passes for an int key.
set_config_IsInstance(st, key, value) ==
  IF Registered(key)
  THEN IF TypeOf(value) = CONFIGURATION_KEYS[key].type
          \/ (TypeOf(value) = "bool" /\ CONFIGURATION_KEYS[key].type = "int")
       THEN [err |-> "none", store |-> Update(st, key, value)]
       ELSE [err |-> "TypeError", store |-> st]
  ELSE [err |-> "KeyError", store |-> st]

\* A mutant of set_config: the key is not looked up in the registry.
set_config_AnyKey(st, key, value) ==
  IF Registered(key) /\ TypeOf(value) # CONFIGURATION_KEYS[key].type
  THEN [err |-> "TypeError", store |-> st]
  ELSE [err |-> "none", store |-> Update(st, key, value)]

\* ConfigurationOptionManager.set_config: the exception raised and the table
\* after the call.
set_config(st, key, value) ==
  IF Registered(key)
  THEN IF TypeOf(value) # CONFIGURATION_KEYS[key].type
       THEN [err |-> "TypeError", store |-> st]
       ELSE [err |-> "none", store |-> Update(st, key, value)]
  ELSE [err |-> "KeyError", store |-> st]

(***************************************************************************)
(* Actions of the configuration resolver.  last is the last call and its   *)
(* outcome, pre the table as it was before that call.                      *)
(***************************************************************************)
NoCall == [op |-> "none", key |-> "", arg |-> NoneV, err |-> "none",
           ret |-> NoneV, undivided |-> TRUE]

\* A __getattr__ call: where it is, the key it reads, what its queries
\* found so far, what it returned, and (adm) what a read without a write
\* between its queries would have returned in each state the table went
\* through since the call began.
IdleReader == [pc |-> "idle", key |-> "", r1 |-> NoRow, r2 |-> NoRow,
               out |-> Returned(NoneV), adm |-> {}]

Reading == reader.pc \in {"exists", "first", "value"}

\* The reader beside a write that leaves the table as st: a call that
\* has returned is forgotten, a call under way gets one more state.
ReaderBeside(st) ==
  IF reader.pc = "done" THEN IdleReader
  ELSE IF Reading
  THEN [reader EXCEPT !.adm = @ \cup {getattr(st, env, reader.key)}]
  ELSE reader

\* ConfigurationOption.objects.create(key=k, value=...): key is unique.
CreateRow(k) ==
  /\ ~store[k].row
  /\ \E r \in {NullRow} \cup {Row(s) : s \in RowValues(k)} :
       /\ store' = [store EXCEPT ![k] = r]
       /\ reader' = ReaderBeside([store EXCEPT ![k] = r])
  /\ pre' = store
  /\ last' = [op |-> "create", key |-> k, arg |-> NoneV, err |-> "none",
              ret |-> NoneV, undivided |-> TRUE]
  /\ UNCHANGED <<env, fileVars, backoff, ocr>>

\* ConfigurationOption.objects.filter(key=k).delete()
DeleteRow(k) ==
  /\ store[k].row
  /\ store' = [store EXCEPT ![k] = NoRow]
  /\ reader' = ReaderBeside([store EXCEPT ![k] = NoRow])
  /\ pre' = store
  /\ last' = [op |-> "delete", key |-> k, arg |-> NoneV, err |-> "none",
              ret |-> NoneV, undivided |-> TRUE]
  /\ UNCHANGED <<env, fileVars, backoff, ocr>>

\* db_settings.set_config(k, v)
SetConfig(k, v) ==
  LET r == set_config(store, k, v) IN
  /\ store' = r.store
  /\ reader' = ReaderBeside(r.store)
  /\ pre' = store
  /\ last' = [op |-> "set_config", key |-> k, arg |-> v, err |-> r.err,
              ret |-> NoneV, undivided |-> TRUE]
  /\ UNCHANGED <<env, fileVars, backoff, ocr>>

\* The call of the reader returns out: it is the last call, undivided
\* when every query it issued found the same row.
GetDone(out, undivided) ==
  /\ reader' = [reader EXCEPT !.pc = "done", !.out = out,
                              !.r1 = NoRow, !.r2 = NoRow]
  /\ last' = [op |-> "getattr", key |-> reader.key, arg |-> NoneV,
              err |-> out.err, ret |-> out.ret, undivided |-> undivided]
  /\ pre' = store

\* db_settings.<k> is entered: the registry test.
GetBegin(k) ==
  /\ reader.pc \in {"idle", "done"}
  /\ IF Registered(k)
     THEN /\ reader' = [IdleReader EXCEPT !.pc = "exists", !.key = k,
                                          !.adm = {getattr(store, env, k)}]
          /\ UNCHANGED <<last, pre>>
     ELSE LET out == getattr_rows(env, k, NoRow, NoRow, NoRow) IN
          /\ reader' = [IdleReader EXCEPT !.pc = "done", !.key = k, !.out = out,
                                          !.adm = {getattr(store, env, k)}]
          /\ last' = [op |-> "getattr", key |-> k, arg |-> NoneV,
                      err |-> out.err, ret |-> out.ret, undivided |-> TRUE]
          /\ pre' = store
  /\ UNCHANGED <<store, env, fileVars, backoff, ocr>>

\* query.exists()
GetExists ==
  LET r1 == store[reader.key] IN
  /\ reader.pc = "exists"
  /\ IF r1.row
     THEN /\ reader' = [reader EXCEPT !.pc = "first", !.r1 = r1]
          /\ UNCHANGED <<last, pre>>
     ELSE GetDone(getattr_rows(env, reader.key, r1, r1, r1), TRUE)
  /\ UNCHANGED <<store, env, fileVars, backoff, ocr>>

\* query.first().value, tested for truth
GetFirstValue ==
  LET r2 == store[reader.key] IN
  /\ reader.pc = "first"
  /\ IF r2.row /\ ~r2.null /\ r2.value # <<>>
     THEN /\ reader' = [reader EXCEPT !.pc = "value", !.r2 = r2]
          /\ UNCHANGED <<last, pre>>
     ELSE GetDone(getattr_rows(env, reader.key, reader.r1, r2, r2),
                  reader.r1 = r2)
  /\ UNCHANGED <<store, env, fileVars, backoff, ocr>>

\* return type(query.first().value)
GetReturn ==
  LET r3 == store[reader.key] IN
  /\ reader.pc = "value"
  /\ GetDone(getattr_rows(env, reader.key, reader.r1, reader.r2, r3),
             reader.r1 = reader.r2 /\ reader.r2 = r3)
  /\ UNCHANGED <<store, env, fileVars, backoff, ocr>>

(***************************************************************************)
(* FileInfo.from_filename.                                                 *)
(***************************************************************************)
\* s[:i] with 1-based i: the characters before position i.
Upto(s, i) == SubSeq(s, 1, i - 1)

\* s.rfind(c), 1-based; 0 when c does not occur.
RFind(s, c) ==
  IF \E i \in 1..Len(s) : s[i] = c
  THEN CHOOSE i \in 1..Len(s) : s[i] = c /\ \A j \in (i + 1)..Len(s) : s[j] # c
  ELSE 0

\* os.path.splitext(p)[0]: the last dot starts the extension if it comes
\* after the last separator and a character other than a dot stands
\* between the two.
splitext(p) ==
  LET sepIndex == RFind(p, "/")
      dotIndex == RFind(p, ".")
  IN IF dotIndex > sepIndex
        /\ \E i \in (sepIndex + 1)..(dotIndex - 1) : p[i] # "."
     THEN Upto(p, dotIndex)
     ELSE p

\* The pattern, a string of literal characters, matches s at position i.
MatchesAt(pattern, s, i) ==
  /\ i + Len(pattern) - 1 <= Len(s)
  /\ \A j \in 1..Len(pattern) : s[i + j - 1] = pattern[j]

\* pattern.subn(repl, s) from position i on: the leftmost non-overlapping
\* matches are replaced, and counted.
RECURSIVE SubnFrom(_, _, _, _)
SubnFrom(pattern, repl, s, i) ==
  IF i > Len(s) THEN [out |-> <<>>, count |-> 0]
  ELSE IF MatchesAt(pattern, s, i)
  THEN LET r == SubnFrom(pattern, repl, s, i + Len(pattern))
       IN [out |-> repl \o r.out, count |-> r.count + 1]
  ELSE LET r == SubnFrom(pattern, repl, s, i + 1)
       IN [out |-> <<s[i]>> \o r.out, count |-> r.count]

subn(rule, s) == SubnFrom(rule.pattern, rule.repl, s, 1)

\* A mutant of the rewrite loop: no break, every rule is applied in turn.
RECURSIVE ApplyTransforms_NoBreak(_, _, _)
ApplyTransforms_NoBreak(rs, i, name) ==
  IF i > Len(rs) THEN name
  ELSE ApplyTransforms_NoBreak(rs, i + 1, subn(rs[i], name).out)

\* The loop over settings.FILENAME_PARSE_TRANSFORMS from rule i on: the
\* filename is replaced by the substitution's result and the loop is left
\* at the first rule that substituted at least once.
RECURSIVE ApplyTransforms(_, _, _)
ApplyTransforms(rs, i, name) ==
  IF i > Len(rs) THEN name
  ELSE LET r == subn(rs[i], name)
       IN IF r.count > 0 THEN r.out
          ELSE ApplyTransforms(rs, i + 1, r.out)

\* The regex "$" at offset pos (the number of characters before it): the
\* end of the string, or just before a newline that ends the string.
DollarAt(s, pos) ==
  \/ pos = Len(s)
  \/ pos = Len(s) - 1 /\ s[Len(s)] = "\n"

\* The number of characters "." can match from offset pos on: the run of
\* characters other than newline.
RECURSIVE DotRun(_, _)
DotRun(s, pos) ==
  IF pos < Len(s) /\ s[pos + 1] # "\n" THEN 1 + DotRun(s, pos + 1) ELSE 0

\* "(?P<title>.*)$" tried at offset pos: ".*" is greedy and backs off until
\* "$" matches.
TitleEnds(s, pos) == {e \in pos..(pos + DotRun(s, pos)) : DollarAt(s, e)}

MatchTitleAt(s, pos) ==
  IF TitleEnds(s, pos) = {} THEN [matched |-> FALSE, title |-> <<>>]
  ELSE LET e == CHOOSE x \in TitleEnds(s, pos) : \A y \in TitleEnds(s, pos) : y <= x
       IN [matched |-> TRUE, title |-> SubSeq(s, pos + 1, e)]

NoMatch == [matched |-> FALSE, created |-> <<>>, title |-> <<>>]

\* "\d{n}" at the start of s.
DigitsAtStart(s, n) == Len(s) >= n /\ \A i \in 1..n : IsDigit(s[i])

\* A mutant of MatchAfterDigits: the "Z" is optional.
MatchAfterDigits_OptionalZ(s, n) ==
  LET z == IF Len(s) > n /\ s[n + 1] \in {"Z", "z"} THEN 1 ELSE 0
  IN IF /\ Len(s) >= n + z + 3
        /\ s[n + z + 1] = " " /\ s[n + z + 2] = "-" /\ s[n + z + 3] = " "
        /\ MatchTitleAt(s, n + z + 3).matched
     THEN [matched |-> TRUE, created |-> SubSeq(s, 1, n + z),
           title |-> MatchTitleAt(s, n + z + 3).title]
     ELSE NoMatch

\* "Z - (?P<title>.*)$" after n digits, ignoring case.
MatchAfterDigits(s, n) ==
  IF /\ Len(s) >= n + 4
     /\ s[n + 1] \in {"Z", "z"}
     /\ s[n + 2] = " " /\ s[n + 3] = "-" /\ s[n + 4] = " "
     /\ MatchTitleAt(s, n + 4).matched
  THEN [matched |-> TRUE, created |-> SubSeq(s, 1, n + 1),
        title |-> MatchTitleAt(s, n + 4).title]
  ELSE NoMatch

\* REGEXES["created-title"].match(s): the optional six digits are tried
\* first, then left out.
MatchCreatedTitle(s) ==
  IF DigitsAtStart(s, 14) /\ MatchAfterDigits(s, 14).matched
  THEN MatchAfterDigits(s, 14)
  ELSE IF DigitsAtStart(s, 8) THEN MatchAfterDigits(s, 8)
  ELSE NoMatch

\* REGEXES["title"].match(s)
MatchTitle(s) ==
  [matched |-> MatchTitleAt(s, 0).matched, created |-> <<>>,
   title |-> MatchTitleAt(s, 0).title]

\* A datetime (in UTC), or None.
NoDate == [isnone |-> TRUE, year |-> 0, month |-> 0, day |-> 0,
           hour |-> 0, minute |-> 0, second |-> 0]

IsLeap(y) == (y % 4 = 0 /\ y % 100 # 0) \/ y % 400 = 0

DaysIn(y, m) ==
  IF m = 2 THEN (IF IsLeap(y) THEN 29 ELSE 28)
  ELSE IF m \in {4, 6, 9, 11} THEN 30 ELSE 31

\* A mutant of PadRight: the zeros are put in front ("0>14").
RECURSIVE PadRight_Left(_)
PadRight_Left(digits) ==
  IF Len(digits) >= 14 THEN digits ELSE PadRight_Left(<<"0">> \o digits)

\* f"{digits:0<14}": padded on the right with "0" to 14 characters.
RECURSIVE PadRight(_)
PadRight(digits) ==
  IF Len(digits) >= 14 THEN digits ELSE PadRight(digits \o <<"0">>)

\* A mutant of get_created: the fields are not checked, so a date-time
\* that does not exist is returned as it was read.
get_created_Unchecked(created) ==
  LET d == PadRight(Upto(created, Len(created)))
  IN [isnone |-> FALSE, year |-> DigitsToNat(SubSeq(d, 1, 4)),
      month |-> DigitsToNat(SubSeq(d, 5, 6)),
      day |-> DigitsToNat(SubSeq(d, 7, 8)),
      hour |-> DigitsToNat(SubSeq(d, 9, 10)),
      minute |-> DigitsToNat(SubSeq(d, 11, 12)),
      second |-> DigitsToNat(SubSeq(d, 13, 14))]

\* FileInfo._get_created: the capture without its last character, padded
\* to 14 digits and read as YYYYMMDDhhmmss; a date-time that does not
\* exist is a ValueError, which gives None.
get_created(created) ==
  LET d == PadRight(Upto(created, Len(created)))
      y == DigitsToNat(SubSeq(d, 1, 4))
      mo == DigitsToNat(SubSeq(d, 5, 6))
      dd == DigitsToNat(SubSeq(d, 7, 8))
      h == DigitsToNat(SubSeq(d, 9, 10))
      mi == DigitsToNat(SubSeq(d, 11, 12))
      sec == DigitsToNat(SubSeq(d, 13, 14))
  IN IF /\ y >= 1 /\ mo \in 1..12 /\ dd >= 1 /\ dd <= DaysIn(y, mo)
        /\ h <= 23 /\ mi <= 59 /\ sec <= 59
     THEN [isnone |-> FALSE, year |-> y, month |-> mo, day |-> dd,
           hour |-> h, minute |-> mi, second |-> sec]
     ELSE NoDate

\* FileInfo._get_title
get_title(title) == title

\* What from_filename returns: None, or a FileInfo with created and title.
NoFileInfo == [called |-> TRUE, isnone |-> TRUE, created |-> NoDate, title |-> <<>>]
FileInfo(created, title) ==
  [called |-> TRUE, isnone |-> FALSE, created |-> created, title |-> title]
NoFile == [called |-> FALSE, isnone |-> TRUE, created |-> NoDate, title |-> <<>>]

\* A mutant of StripExtension: no special case for a leading dot.
StripExtension_NoSpecialCase(name) == splitext(name)

\* The extension split and its special case, on the rewritten filename.
StripExtension(name) ==
  IF splitext(name) = name /\ name # <<>> /\ name[1] = "."
  THEN <<>>
  ELSE splitext(name)

\* The loop over REGEXES on the extensionless filename: the first pattern
\* that matches gives the FileInfo; when none matches the function falls
\* off its end and returns None.
ParseComponents(name) ==
  IF MatchCreatedTitle(name).matched
  THEN FileInfo(get_created(MatchCreatedTitle(name).created),
                get_title(MatchCreatedTitle(name).title))
  ELSE IF MatchTitle(name).matched
  THEN FileInfo(NoDate, get_title(MatchTitle(name).title))
  ELSE NoFileInfo

\* FileInfo.from_filename
from_filename(rs, name) ==
  ParseComponents(StripExtension(ApplyTransforms(rs, 1, name)))

(***************************************************************************)
(* The filenames and rewrite rules the model tries.                        *)
(***************************************************************************)
Alphabet == {"a", "b", ".", "\n", "/"}

RECURSIVE StringsUpTo(_)
StringsUpTo(n) ==
  IF n = 0 THEN {<<>>}
  ELSE StringsUpTo(n - 1)
       \cup {s \o <<c>> : s \in {x \in StringsUpTo(n - 1) : Len(x) = n - 1},
                          c \in Alphabet}

DatePrefixes ==
  {<<"2", "0", "2", "3", "0", "4", "0", "5", "Z", " ", "-", " ">>,
   <<"2", "0", "2", "3", "0", "4", "0", "5", "z", " ", "-", " ">>,
   <<"2", "0", "2", "3", "0", "4", "0", "5", " ", "-", " ">>,
   <<"2", "0", "2", "3", "1", "3", "0", "5", "Z", " ", "-", " ">>,
   <<"2", "0", "2", "3", "0", "4", "0", "5", "1", "2", "0", "0", "0", "0",
     "Z", " ", "-", " ">>,
   <<"2", "0", "2", "3", "0", "4", "0", "5", "2", "5", "0", "0", "0", "0",
     "Z", " ", "-", " ">>,
   <<"2", "0", "2", "3", "0", "4", "0", "5", "1", "2", "0", "0", "0", "0",
     " ", "-", " ">>,
   <<"2", "0", "2", "3", "0", "4", "0", "5", "1", "2", "Z", " ", "-", " ">>,
   <<"2", "0", "2", "3", "0", "2", "2", "9", "Z", " ", "-", " ">>,
   <<"2", "0", "2", "4", "0", "2", "2", "9", "Z", " ", "-", " ">>,
   <<"0", "0", "0", "0", "0", "1", "0", "1", "Z", " ", "-", " ">>,
   <<"2", "0", "2", "3", "0", "4", "0", "5", "1", "2", "0", "0", "6", "0",
     "z", " ", "-", " ">>,
   <<Chr(1634), Chr(1632), Chr(1634), Chr(1635), Chr(1632), Chr(1636),
     Chr(1632), Chr(1637), "Z", " ", "-", " ">>,
   <<"2", "0", "2", "3", "0", "4", "0", Chr(1637), "1", "2", "0", "0",
     "0", Chr(1632), "Z", " ", "-", " ">>}

\* The filenames of the documented examples.
Invoice14 ==
  <<"2", "0", "2", "3", "0", "4", "0", "5", "1", "2", "0", "0", "0",
      "0", "Z", " ", "-", " ", "I", "n", "v", "o", "i", "c", "e",
      ".", "p", "d", "f">>
Invoice8 ==
  <<"2", "0", "2", "3", "0", "4", "0", "5", "Z", " ", "-", " ", "I",
      "n", "v", "o", "i", "c", "e", ".", "p", "d", "f">>
InvoiceMidnight ==
  <<"2", "0", "2", "3", "0", "4", "0", "5", "0", "0", "0", "0", "0",
      "0", "Z", " ", "-", " ", "I", "n", "v", "o", "i", "c", "e",
      ".", "p", "d", "f">>
InvoiceNoZ ==
  <<"2", "0", "2", "3", "0", "4", "0", "5", " ", "-", " ", "I", "n",
      "v", "o", "i", "c", "e", ".", "p", "d", "f">>
PlainName ==
  <<"p", "l", "a", "i", "n", "-", "n", "a", "m", "e", ".", "p", "d",
      "f">>
DotPdf == <<".", "p", "d", "f">>

NamedFiles ==
  {Invoice14, Invoice8, InvoiceMidnight, InvoiceNoZ, PlainName, DotPdf}

FileNames ==
  StringsUpTo(MaxLen + 1)
    \cup {d \o s : d \in DatePrefixes, s \in StringsUpTo(MaxLen)}
    \cup NamedFiles

\* Rewrite rules: a pattern of literal characters and a literal replacement.
Rule(pattern, repl) == [pattern |-> pattern, repl |-> repl]

RulePool == {Rule(<<"a">>, <<"b">>), Rule(<<"b">>, <<".">>),
             Rule(<<"b", "b">>, <<"a">>)}

RECURSIVE RuleLists(_)
RuleLists(n) ==
  IF n = 0 THEN {<<>>}
  ELSE RuleLists(n - 1)
       \cup {rs \o <<r>> : rs \in {x \in RuleLists(n - 1) : Len(x) = n - 1},
                           r \in RulePool}

\* FileInfo.from_filename(fname), called once on the filename handed in.
FromFilename ==
  /\ ~info.called
  /\ filename' = ApplyTransforms(rules, 1, fname)
  /\ info' = from_filename(rules, fname)
  /\ UNCHANGED <<rules, fname, cfgVars, reader, backoff, ocr>>

(***************************************************************************)
(* __getattr__ beside concurrent set_config calls.  The read is three      *)
(* queries (exists(), first() for the truth test, first() for the value);  *)
(* a set_config is one UPDATE and may run between any two of them.         *)
(* reader.adm collects what an undivided read would have returned in each  *)
(* state the table went through since the read began.                      *)
(***************************************************************************)
\* The keys read and written concurrently.
ConcKeys == {"OCR_LANGUAGE", "OCR_IMAGE_DPI"}

\* set_config(k, v) by another caller while the read is under way.
ConcSet(k, v) ==
  LET r == set_config(store, k, v) IN
  /\ Reading
  /\ store' = r.store
  /\ reader' = ReaderBeside(r.store)
  /\ UNCHANGED <<env, last, pre, fileVars, backoff, ocr>>

(***************************************************************************)
(* util_call_with_backoff.  The callable is a script: what its first,      *)
(* second and third invocation do.  An invocation returns, or raises a     *)
(* ParseError caused by an httpx.HTTPStatusError of some status code, or a *)
(* ParseError without such a cause, or another Exception, or a             *)
(* BaseException that is not an Exception (which no handler catches).      *)
(***************************************************************************)
max_retry_count == 3
InitialRetryTime == 20

Outcome(kind, code) == [kind |-> kind, code |-> code]
Outcomes ==
  {Outcome("return", 0), Outcome("ParseError", 0), Outcome("Exception", 0),
   Outcome("BaseException", 0)}
  \cup {Outcome("HTTPStatusError", c) : c \in {404, 500}}

Caught(o) == o.kind \in {"HTTPStatusError", "ParseError", "Exception"}

Scripts == [1..max_retry_count -> Outcomes]

\* httpx.codes.is_server_error
is_server_error(code) == 500 <= code /\ code <= 599

\* What the n-th invocation of the callable returns, when it returns.
ResultOf(n) == IntV(n)

IdleBackoff ==
  [pc |-> "idle", script |-> <<>>, skip_on_50x_err |-> FALSE,
   result |-> NoneV, succeeded |-> FALSE, retry_time |-> 0, retry_count |-> 0,
   status_codes |-> <<>>, seen |-> <<>>, slept |-> <<>>,
   ret |-> [succeeded |-> FALSE, result |-> NoneV]]

\* The locals after lines 117-122, before the loop is entered.
StartBackoff(script, skip) ==
  [IdleBackoff EXCEPT !.pc = "loop", !.script = script,
                      !.skip_on_50x_err = skip,
                      !.retry_time = InitialRetryTime]

\* A mutant of the loop condition: success does not end the loop.
LoopContinues_IgnoresSuccess(b) == b.retry_count < max_retry_count

\* while retry_count < max_retry_count and not succeeded
LoopContinues(b) == b.retry_count < max_retry_count /\ ~b.succeeded

\* The try statement and retry_count = retry_count + 1.  The invocations
\* made so far are kept in seen.
Attempt ==
  /\ backoff.pc = "loop"
  /\ LoopContinues(backoff)
  /\ LET n == Len(backoff.seen) + 1
         o == backoff.script[n]
         called == [backoff EXCEPT !.seen = Append(@, o)]
     IN backoff' =
          CASE o.kind = "return" ->
                 [called EXCEPT !.result = ResultOf(n), !.succeeded = TRUE,
                                !.retry_count = @ + 1, !.pc = "sleep"]
            [] o.kind = "HTTPStatusError" ->
                 [called EXCEPT !.status_codes = Append(@, o.code),
                                !.retry_count = @ + 1, !.pc = "sleep"]
            [] o.kind \in {"ParseError", "Exception"} ->
                 [called EXCEPT !.retry_count = @ + 1, !.pc = "sleep"]
            [] OTHER -> [called EXCEPT !.pc = "raised"]
  /\ UNCHANGED <<cfgVars, fileVars, reader, ocr>>

\* time.sleep(retry_time); retry_time = retry_time * 2.0.  slept keeps
\* each wait and whether the attempt before it had succeeded.
Sleep ==
  /\ backoff.pc = "sleep"
  /\ backoff' =
       [backoff EXCEPT
          !.slept = Append(@, [secs |-> backoff.retry_time,
                               after |-> IF backoff.succeeded THEN "success"
                                         ELSE "failure"]),
          !.retry_time = @ * 2,
          !.pc = "loop"]
  /\ UNCHANGED <<cfgVars, fileVars, reader, ocr>>

\* After the loop: pytest.skip for repeated 50x errors, else the return.
Finish ==
  /\ backoff.pc = "loop"
  /\ ~LoopContinues(backoff)
  /\ backoff' =
       IF /\ ~backoff.succeeded
          /\ backoff.status_codes # <<>>
          /\ backoff.skip_on_50x_err
          /\ \A i \in DOMAIN backoff.status_codes :
               is_server_error(backoff.status_codes[i])
       THEN [backoff EXCEPT !.pc = "skipped"]
       ELSE [backoff EXCEPT !.pc = "returned",
                            !.ret = [succeeded |-> backoff.succeeded,
                                     result |-> backoff.result]]
  /\ UNCHANGED <<cfgVars, fileVars, reader, ocr>>

(***************************************************************************)
(* get_ocr_settings.  The OcrSettings row and the application settings     *)
(* hold one value per option; user_args is a JSON value in the row and a   *)
(* JSON text (or None) in the settings.                                    *)
(***************************************************************************)
\* A float with a whole value.
FloatV(n) == [t |-> "float", s |-> <<>>, n |-> n, b |-> FALSE]

\* bool(value)
Truthy(v) == CASE v.t = "NoneType" -> FALSE
               [] v.t = "bool" -> v.b
               [] v.t \in {"int", "float"} -> v.n # 0
               [] OTHER -> v.s # <<>>

\* a or b
PyOr(a, b) == IF Truthy(a) THEN a ELSE b

\* The fields of OcrSetting other than user_args, by type.
IntOptions == {"pages", "image_dpi"}
StrOptions == {"language", "output_type", "mode", "skip_archive_file",
               "clean", "color_conversion_strategy"}
BoolOptions == {"deskew", "rotate"}
FloatOptions == {"rotate_threshold", "max_image_pixel"}
Options == IntOptions \cup StrOptions \cup BoolOptions \cup FloatOptions

\* The values a row can hold for an option: None, the false value of the
\* option's type, and another value.
StoredValues(o) ==
  {NoneV} \cup
  (CASE o \in IntOptions -> {IntV(0), IntV(1)}
     [] o \in StrOptions -> {StrV(<<>>), StrV(<<"a">>)}
     [] o \in BoolOptions -> {BoolV(FALSE), BoolV(TRUE)}
     [] OTHER -> {FloatV(0), FloatV(1)})

\* The values settings.OCR_<OPTION> can hold.
SettingValues(o) ==
  CASE o \in IntOptions -> {NoneV, IntV(2)}
    [] o \in StrOptions -> {StrV(<<"b">>)}
    [] o \in BoolOptions -> {BoolV(FALSE), BoolV(TRUE)}
    [] OTHER -> {NoneV, FloatV(2)}

\* JSON values as Python holds them: None, a bool, an int, a float (kept
\* as the text json.loads read it from), a str, a list of values, or a dict
\* (its items in insertion order).
JV(t, s, n, b, m) == [t |-> t, s |-> s, n |-> n, b |-> b, m |-> m]
JNull == JV("null", <<>>, 0, FALSE, <<>>)
JBool(b) == JV("bool", <<>>, 0, b, <<>>)
JInt(n) == JV("int", <<>>, n, FALSE, <<>>)
JFloat(lexeme) == JV("float", lexeme, 0, FALSE, <<>>)
JStr(s) == JV("str", s, 0, FALSE, <<>>)
JList(items) == JV("list", <<>>, 0, FALSE, items)
JDict(m) == JV("dict", <<>>, 0, FALSE, m)

\* The decimal digits of 5^1075: 2^-1075, half of the smallest float above
\* zero, is 0.d1d2...d752 * 10^-323 with these digits.  A number of at most
\* that size is read as 0.0 (round half to even).
HalfSmallestFloat ==
  <<
    2, 4, 7, 0, 3, 2, 8, 2, 2, 9, 2, 0, 6, 2, 3, 2, 7, 2, 0, 8, 8, 2, 8, 4, 3, 9, 6, 4, 3, 4, 1, 1,
    0, 6, 8, 6, 1, 8, 2, 5, 2, 9, 9, 0, 1, 3, 0, 7, 1, 6, 2, 3, 8, 2, 2, 1, 2, 7, 9, 2, 8, 4, 1, 2,
    5, 0, 3, 3, 7, 7, 5, 3, 6, 3, 5, 1, 0, 4, 3, 7, 5, 9, 3, 2, 6, 4, 9, 9, 1, 8, 1, 8, 0, 8, 1, 7,
    9, 9, 6, 1, 8, 9, 8, 9, 8, 2, 8, 2, 3, 4, 7, 7, 2, 2, 8, 5, 8, 8, 6, 5, 4, 6, 3, 3, 2, 8, 3, 5,
    5, 1, 7, 7, 9, 6, 9, 8, 9, 8, 1, 9, 9, 3, 8, 7, 3, 9, 8, 0, 0, 5, 3, 9, 0, 9, 3, 9, 0, 6, 3, 1,
    5, 0, 3, 5, 6, 5, 9, 5, 1, 5, 5, 7, 0, 2, 2, 6, 3, 9, 2, 2, 9, 0, 8, 5, 8, 3, 9, 2, 4, 4, 9, 1,
    0, 5, 1, 8, 4, 4, 3, 5, 9, 3, 1, 8, 0, 2, 8, 4, 9, 9, 3, 6, 5, 3, 6, 1, 5, 2, 5, 0, 0, 3, 1, 9,
    3, 7, 0, 4, 5, 7, 6, 7, 8, 2, 4, 9, 2, 1, 9, 3, 6, 5, 6, 2, 3, 6, 6, 9, 8, 6, 3, 6, 5, 8, 4, 8,
    0, 7, 5, 7, 0, 0, 1, 5, 8, 5, 7, 6, 9, 2, 6, 9, 9, 0, 3, 7, 0, 6, 3, 1, 1, 9, 2, 8, 2, 7, 9, 5,
    5, 8, 5, 5, 1, 3, 3, 2, 9, 2, 7, 8, 3, 4, 3, 3, 8, 4, 0, 9, 3, 5, 1, 9, 7, 8, 0, 1, 5, 5, 3, 1,
    2, 4, 6, 5, 9, 7, 2, 6, 3, 5, 7, 9, 5, 7, 4, 6, 2, 2, 7, 6, 6, 4, 6, 5, 2, 7, 2, 8, 2, 7, 2, 2,
    0, 0, 5, 6, 3, 7, 4, 0, 0, 6, 4, 8, 5, 4, 9, 9, 9, 7, 7, 0, 9, 6, 5, 9, 9, 4, 7, 0, 4, 5, 4, 0,
    2, 0, 8, 2, 8, 1, 6, 6, 2, 2, 6, 2, 3, 7, 8, 5, 7, 3, 9, 3, 4, 5, 0, 7, 3, 6, 3, 3, 9, 0, 0, 7,
    9, 6, 7, 7, 6, 1, 9, 3, 0, 5, 7, 7, 5, 0, 6, 7, 4, 0, 1, 7, 6, 3, 2, 4, 6, 7, 3, 6, 0, 0, 9, 6,
    8, 9, 5, 1, 3, 4, 0, 5, 3, 5, 5, 3, 7, 4, 5, 8, 5, 1, 6, 6, 6, 1, 1, 3, 4, 2, 2, 3, 7, 6, 6, 6,
    7, 8, 6, 0, 4, 1, 6, 2, 1, 5, 9, 6, 8, 0, 4, 6, 1, 9, 1, 4, 4, 6, 7, 2, 9, 1, 8, 4, 0, 3, 0, 0,
    5, 3, 0, 0, 5, 7, 5, 3, 0, 8, 4, 9, 0, 4, 8, 7, 6, 5, 3, 9, 1, 7, 1, 1, 3, 8, 6, 5, 9, 1, 6, 4,
    6, 2, 3, 9, 5, 2, 4, 9, 1, 2, 6, 2, 3, 6, 5, 3, 8, 8, 1, 8, 7, 9, 6, 3, 6, 2, 3, 9, 3, 7, 3, 2,
    8, 0, 4, 2, 3, 8, 9, 1, 0, 1, 8, 6, 7, 2, 3, 4, 8, 4, 9, 7, 6, 6, 8, 2, 3, 5, 0, 8, 9, 8, 6, 3,
    3, 8, 8, 5, 8, 7, 9, 2, 5, 6, 2, 8, 3, 0, 2, 7, 5, 5, 9, 9, 5, 6, 5, 7, 5, 2, 4, 4, 5, 5, 5, 0,
    7, 2, 5, 5, 1, 8, 9, 3, 1, 3, 6, 9, 0, 8, 3, 6, 2, 5, 4, 7, 7, 9, 1, 8, 6, 9, 4, 8, 6, 6, 7, 9,
    9, 4, 9, 6, 8, 3, 2, 4, 0, 4, 9, 7, 0, 5, 8, 2, 1, 0, 2, 8, 5, 1, 3, 1, 8, 5, 4, 5, 1, 3, 9, 6,
    2, 1, 3, 8, 3, 7, 7, 2, 2, 8, 2, 6, 1, 4, 5, 4, 3, 7, 6, 9, 3, 4, 1, 2, 5, 3, 2, 0, 9, 8, 5, 9,
    1, 3, 2, 7, 6, 6, 7, 2, 3, 6, 3, 2, 8, 1, 2, 5>>

RECURSIVE StripZeros(_)
StripZeros(digits) ==
  IF digits # <<>> /\ digits[1] = "0" THEN StripZeros(Tail(digits)) ELSE digits

\* The text of a float in parts: the digits of its mantissa without the
\* zeros in front, how many of them stand after the point, and its
\* exponent (sign, and digits without the zeros in front).
FloatParts(lexeme) ==
  LET body == IF lexeme[1] = "-" THEN Tail(lexeme) ELSE lexeme
      e == IF \E i \in DOMAIN body : body[i] \in {"e", "E"}
           THEN CHOOSE i \in DOMAIN body : body[i] \in {"e", "E"}
           ELSE Len(body) + 1
      mantissa == SubSeq(body, 1, e - 1)
      point == IF \E i \in DOMAIN mantissa : mantissa[i] = "."
               THEN CHOOSE i \in DOMAIN mantissa : mantissa[i] = "."
               ELSE Len(mantissa) + 1
      exponent == SubSeq(body, e + 1, Len(body))
      signed == exponent # <<>> /\ exponent[1] \in {"-", "+"}
  IN [digits |-> StripZeros(SubSeq(mantissa, 1, point - 1)
                              \o SubSeq(mantissa, point + 1, Len(mantissa))),
      after_point |-> IF point > Len(mantissa) THEN 0
                     ELSE Len(mantissa) - point,
      negative_exponent |-> exponent # <<>> /\ exponent[1] = "-",
      exponent |-> StripZeros(IF signed THEN Tail(exponent) ELSE exponent)]

\* 0.digits <= 0.d1d2...d752 of HalfSmallestFloat
AtMostHalfSmallest(digits) ==
  LET d(i) == IF i <= Len(digits) THEN DigitVal(digits[i]) ELSE 0
      h(i) == IF i <= Len(HalfSmallestFloat) THEN HalfSmallestFloat[i] ELSE 0
      n == IF Len(digits) > Len(HalfSmallestFloat) THEN Len(digits)
           ELSE Len(HalfSmallestFloat)
  IN \A i \in 1..n : (d(i) # h(i) /\ \A j \in 1..(i - 1) : d(j) = h(j))
                         => d(i) < h(i)

\* float(lexeme) == 0.0: the mantissa is zero, or the number is so small
\* that it is read as zero.  digits * 10^(exponent - after_point) is
\* 0.digits * 10^lead.
FloatIsZero(lexeme) ==
  LET p == FloatParts(lexeme)
      lead == Len(p.digits) - p.after_point
                + (IF p.negative_exponent THEN 0 - DigitsToNat(p.exponent)
                   ELSE DigitsToNat(p.exponent))
  IN /\ \E i \in DOMAIN lexeme : IsAsciiDigit(lexeme[i])
     /\ \/ p.digits = <<>>
        \/ Len(p.exponent) > 7 /\ p.negative_exponent
        \/ /\ Len(p.exponent) <= 7
           /\ \/ lead < 0 - 323
              \/ lead = 0 - 323 /\ AtMostHalfSmallest(p.digits)

\* bool(value) of a JSON value: None, False, 0, 0.0, "", [] and {} are false.
JTruthy(j) == CASE j.t = "null" -> FALSE
                [] j.t = "bool" -> j.b
                [] j.t = "int" -> j.n # 0
                [] j.t = "float" -> ~FloatIsZero(j.s)
                [] j.t = "str" -> j.s # <<>>
                [] OTHER -> j.m # <<>>

\* The result of a scan: the value and the index after it.
JFail == [ok |-> FALSE, v |-> JNull, i |-> 0]
JOk(v, i) == [ok |-> TRUE, v |-> v, i |-> i]

Rest(s, n) == SubSeq(s, n + 1, Len(s))
StartsWith(s, prefix) ==
  Len(s) >= Len(prefix) /\ SubSeq(s, 1, Len(prefix)) = prefix

\* s[i], or "" past the end of s.
CharAt(s, i) == IF i >= 1 /\ i <= Len(s) THEN s[i] ELSE ""

\* s[i:].startswith(lit)
LitAt(s, i, lit) == StartsWith(Rest(s, i - 1), lit)

\* The whitespace json skips between tokens.
JsonWhitespace == {" ", "\t", "\n", "\r"}

RECURSIVE SkipWs(_, _)
SkipWs(s, i) == IF CharAt(s, i) \in JsonWhitespace THEN SkipWs(s, i + 1) ELSE i

\* The index after the run of digits that starts at i.
RECURSIVE DigitRun(_, _)
DigitRun(s, i) == IF IsAsciiDigit(CharAt(s, i)) THEN DigitRun(s, i + 1) ELSE i

\* NUMBER_RE, (-?(?:0|[1-9]\d*))(\.\d+)?([eE][-+]?\d+)?, matched at i: an
\* int when there is neither fraction nor exponent, else a float.
ScanNumber(s, i) ==
  LET d == IF CharAt(s, i) = "-" THEN i + 1 ELSE i
      int_end == IF CharAt(s, d) = "0" THEN d + 1 ELSE DigitRun(s, d)
      frac_end == IF CharAt(s, int_end) = "." /\ IsAsciiDigit(CharAt(s, int_end + 1))
                  THEN DigitRun(s, int_end + 1) ELSE int_end
      e == IF CharAt(s, frac_end + 1) \in {"-", "+"} THEN frac_end + 2
           ELSE frac_end + 1
      exp_end == IF CharAt(s, frac_end) \in {"e", "E"} /\ IsAsciiDigit(CharAt(s, e))
                 THEN DigitRun(s, e) ELSE frac_end
  IN IF ~IsAsciiDigit(CharAt(s, d)) THEN JFail
     ELSE IF exp_end = int_end
     THEN JOk(JInt(IF d = i THEN DigitsToNat(SubSeq(s, d, int_end - 1))
                   ELSE 0 - DigitsToNat(SubSeq(s, d, int_end - 1))), int_end)
     ELSE JOk(JFloat(SubSeq(s, i, exp_end - 1)), exp_end)

LowerHex == <<"a", "b", "c", "d", "e", "f">>

IsHex(c) == \E k \in DOMAIN HexDigits : HexDigits[k] = c
             \/ (k > 10 /\ LowerHex[k - 10] = c)
HexVal(c) == (CHOOSE k \in DOMAIN HexDigits :
                HexDigits[k] = c \/ (k > 10 /\ LowerHex[k - 10] = c)) - 1

RECURSIVE HexToNat(_)
HexToNat(h) == IF h = <<>> THEN 0
               ELSE 16 * HexToNat(SubSeq(h, 1, Len(h) - 1)) + HexVal(h[Len(h)])

\* The four hex digits after a \u at i, -1 if they are not there.
UEscape(s, i) ==
  IF \A k \in 2..5 : IsHex(CharAt(s, i + k))
  THEN HexToNat(SubSeq(s, i + 2, i + 5)) ELSE 0 - 1

\* The characters below U+0020, which a JSON string may not hold.
ControlCharacters == {Chr(k) : k \in 0..31}

\* scanstring from inside the quotes: the characters up to the closing
\* quote, with the escapes decoded and a surrogate pair made one character;
\* a control character or a bad escape is an error.
RECURSIVE ScanChars(_, _, _)
ScanChars(s, i, acc) ==
  LET c == CharAt(s, i)
      e == CharAt(s, i + 1)
      hi == UEscape(s, i)
      lo == IF CharAt(s, i + 6) = "\\" /\ CharAt(s, i + 7) = "u"
            THEN UEscape(s, i + 6) ELSE 0 - 1
  IN CASE c = "" -> JFail
       [] c = "\"" -> JOk(JStr(acc), i + 1)
       [] c \in ControlCharacters -> JFail
       [] c = "\\" ->
            CASE e \in {"\"", "\\", "/"} -> ScanChars(s, i + 2, Append(acc, e))
              [] e = "b" -> ScanChars(s, i + 2, Append(acc, Chr(8)))
              [] e = "f" -> ScanChars(s, i + 2, Append(acc, Chr(12)))
              [] e = "n" -> ScanChars(s, i + 2, Append(acc, Chr(10)))
              [] e = "r" -> ScanChars(s, i + 2, Append(acc, Chr(13)))
              [] e = "t" -> ScanChars(s, i + 2, Append(acc, Chr(9)))
              [] e = "u" ->
                   IF hi < 0 THEN JFail
                   ELSE IF hi >= 55296 /\ hi <= 56319 /\ lo >= 56320 /\ lo <= 57343
                   THEN ScanChars(s, i + 12,
                          Append(acc, Chr(65536 + (hi - 55296) * 1024 + (lo - 56320))))
                   ELSE ScanChars(s, i + 6, Append(acc, Chr(hi)))
              [] OTHER -> JFail
       [] OTHER -> ScanChars(s, i + 1, Append(acc, c))

\* dict[key] = value on a dict kept as its items in insertion order.
RECURSIVE PutItem(_, _, _)
PutItem(m, key, v) ==
  IF m = <<>> THEN <<<<key, v>>>>
  ELSE IF m[1][1] = key THEN <<<<key, v>>>> \o Tail(m)
  ELSE <<m[1]>> \o PutItem(Tail(m), key, v)

\* scan_once at i, and the members of an object and the items of an array
\* from i on.
RECURSIVE ParseJsonValue(_, _), ParseMembers(_, _, _), ParseItems(_, _, _)
ParseJsonValue(s, i) ==
  LET c == CharAt(s, i) IN
  CASE c = "\"" -> ScanChars(s, i + 1, <<>>)
    [] c = "{" ->
         IF CharAt(s, SkipWs(s, i + 1)) = "}"
         THEN JOk(JDict(<<>>), SkipWs(s, i + 1) + 1)
         ELSE ParseMembers(s, SkipWs(s, i + 1), <<>>)
    [] c = "[" ->
         IF CharAt(s, SkipWs(s, i + 1)) = "]"
         THEN JOk(JList(<<>>), SkipWs(s, i + 1) + 1)
         ELSE ParseItems(s, SkipWs(s, i + 1), <<>>)
    [] c = "n" /\ LitAt(s, i, <<"n", "u", "l", "l">>) -> JOk(JNull, i + 4)
    [] c = "t" /\ LitAt(s, i, <<"t", "r", "u", "e">>) -> JOk(JBool(TRUE), i + 4)
    [] c = "f" /\ LitAt(s, i, <<"f", "a", "l", "s", "e">>) -> JOk(JBool(FALSE), i + 5)
    [] ScanNumber(s, i).ok -> ScanNumber(s, i)
    [] c = "N" /\ LitAt(s, i, <<"N", "a", "N">>) -> JOk(JFloat(<<"N", "a", "N">>), i + 3)
    [] c = "I" /\ LitAt(s, i, <<"I", "n", "f", "i", "n", "i", "t", "y">>) -> JOk(JFloat(<<"I", "n", "f", "i", "n", "i", "t", "y">>), i + 8)
    [] c = "-" /\ LitAt(s, i, <<"-", "I", "n", "f", "i", "n", "i", "t", "y">>) -> JOk(JFloat(<<"-", "I", "n", "f", "i", "n", "i", "t", "y">>), i + 9)
    [] OTHER -> JFail

ParseMembers(s, i, acc) ==
  LET key == IF CharAt(s, i) = "\"" THEN ScanChars(s, i + 1, <<>>) ELSE JFail
      colon == SkipWs(s, key.i)
      v == IF key.ok /\ CharAt(s, colon) = ":"
           THEN ParseJsonValue(s, SkipWs(s, colon + 1)) ELSE JFail
      end == SkipWs(s, v.i)
  IN IF ~v.ok THEN JFail
     ELSE IF CharAt(s, end) = "}"
     THEN JOk(JDict(PutItem(acc, key.v.s, v.v)), end + 1)
     ELSE IF CharAt(s, end) = ","
     THEN ParseMembers(s, SkipWs(s, end + 1), PutItem(acc, key.v.s, v.v))
     ELSE JFail

ParseItems(s, i, acc) ==
  LET v == ParseJsonValue(s, i)
      end == SkipWs(s, v.i)
  IN IF ~v.ok THEN JFail
     ELSE IF CharAt(s, end) = "]" THEN JOk(JList(Append(acc, v.v)), end + 1)
     ELSE IF CharAt(s, end) = ","
     THEN ParseItems(s, SkipWs(s, end + 1), Append(acc, v.v))
     ELSE JFail

\* json.loads(text): ok is false when it raises JSONDecodeError (no value,
\* or text after the value).
JsonLoads(text) ==
  LET r == ParseJsonValue(text, SkipWs(text, 1))
  IN IF r.ok /\ SkipWs(text, r.i) = Len(text) + 1 THEN r ELSE JFail

NoText == [none |-> TRUE, text |-> <<>>]
Text(s) == [none |-> FALSE, text |-> s]

\* The user_args a row can hold, and the texts of settings.OCR_USER_ARGS.
StoredUserArgs ==
  {JNull, JDict(<<>>), JDict(<<<<(<<"a">>), JStr(<<"b">>)>>>>), JList(<<>>),
   JBool(FALSE), JFloat(<<"0", ".", "5">>),
   JFloat(<<"1", "e", "-", "9", "9", "9">>)}
UserArgsTexts ==
  {NoText,
   Text(<<>>),
   Text(<<"{">>),
   Text(<<"n", "u", "l", "l">>),
   Text(<<"{", "}">>),
   Text(<<"{", "\"", "a", "\"", ":", "\"", "b", "\"", "}">>),
   Text(<<"{", "\"", "a", "\"", ":", "{", "}", "}">>),
   Text(<<"{", "\"", "a", "\"", "}">>),
   Text(<<"t", "r", "u", "e">>),
   Text(<<"f", "a", "l", "s", "e">>),
   Text(<<"N", "a", "N">>),
   Text(<<" ", "{", "\"", "a", "\"", ":", " ", "\"", "b", "\"", ",", " ", "\"", "b", "\"", ":", " ", "\"", "a", "\"", "}", " ">>),
   Text(<<"[", "]">>),
   Text(<<"0">>),
   Text(<<"1", "e", "-", "9", "9", "9">>),
   Text(<<"\"", "a", Chr(1), "\"">>),
   Text(<<"\"", "a", "\\", "u", "0", "0", "0", "1", "\"">>),
   Text(<<"[", "\"", "a", "\"", "]">>)}

\* A mutant of the user_args layers: the setting is looked at first.
ResolveUserArgs_SettingFirst(stored, setting) ==
  IF ~setting.none THEN JsonLoads(setting.text)
  ELSE IF JTruthy(stored) THEN JOk(stored, 0)
  ELSE JOk(JNull, 0)

\* user_args of get_ocr_settings (lines 31-35).
ResolveUserArgs(stored, setting) ==
  IF JTruthy(stored) THEN JOk(stored, 0)
  ELSE IF ~setting.none THEN JsonLoads(setting.text)
  ELSE JOk(JNull, 0)

NoBundle == [o \in Options |-> NoneV]
NoOcr ==
  [called |-> FALSE, has_row |-> FALSE, row |-> NoBundle, row_user_args |-> JNull,
   settings |-> NoBundle, OCR_USER_ARGS |-> NoText,
   raised |-> "", out |-> NoBundle, user_args |-> JNull]

\* get_ocr_settings()
GetOcrSettings ==
  /\ ~ocr.called
  /\ LET ua == ResolveUserArgs(ocr.row_user_args, ocr.OCR_USER_ARGS) IN
     ocr' =
       IF ~ocr.has_row
       THEN [ocr EXCEPT !.called = TRUE, !.raised = "AssertionError"]
       ELSE IF ~ua.ok
       THEN [ocr EXCEPT !.called = TRUE, !.raised = "JSONDecodeError"]
       ELSE [ocr EXCEPT !.called = TRUE,
                        !.out = [o \in Options |->
                                   PyOr(ocr.row[o], ocr.settings[o])],
                        !.user_args = ua.v]
  /\ UNCHANGED <<cfgVars, fileVars, reader, backoff>>

(***************************************************************************)
(* The specifications: Spec of the configuration resolver, SpecFile of     *)
(* the filename parser.  The two components share no state.                *)
(***************************************************************************)
Init ==
  /\ store = [k \in Keys |-> NoRow]
  /\ env \in {[k \in Keys |-> NoEnv]}
               \cup {[k \in Keys |-> EnvVar(s)] : s \in EnvValues}
  /\ last = NoCall
  /\ pre = store
  /\ rules = <<>>
  /\ fname = <<>>
  /\ filename = <<>>
  /\ info = NoFile
  /\ reader = IdleReader
  /\ backoff = IdleBackoff /\ ocr = NoOcr

\* Spec: the calls of one caller, each run to its end before the next one
\* begins; the table holds a row for any of the keys.
Next ==
  \/ ~Reading /\ \E k \in Keys : CreateRow(k)
  \/ ~Reading /\ \E k \in Keys : DeleteRow(k)
  \/ ~Reading /\ \E k \in Keys, v \in SetValues : SetConfig(k, v)
  \/ \E k \in Keys : GetBegin(k)
  \/ GetExists
  \/ GetFirstValue
  \/ GetReturn

Spec == Init /\ [][Next]_vars

InitFile ==
  /\ store = [k \in Keys |-> NoRow]
  /\ env = [k \in Keys |-> NoEnv]
  /\ last = NoCall
  /\ pre = store
  /\ rules \in RuleLists(MaxRules)
  /\ fname \in FileNames
  /\ filename = <<>>
  /\ info = NoFile
  /\ reader = IdleReader
  /\ backoff = IdleBackoff /\ ocr = NoOcr

NextFile == FromFilename

SpecFile == InitFile /\ [][NextFile]_vars

\* SpecConc: one read of a key beside any number of set_config calls.
InitConc ==
  /\ store \in {st \in [Keys -> {NoRow, NullRow}
                                 \cup {Row(s) : s \in UNION {RowValues(k) : k \in Keys}}] :
                  \A k \in Keys :
                    IF k \in ConcKeys
                    THEN st[k].row /\ ~st[k].null => st[k].value \in RowValues(k)
                    ELSE st[k] = NoRow}
  /\ env \in {ev \in [Keys -> {NoEnv} \cup {EnvVar(s) : s \in EnvValues}] :
                \A k \in Keys \ ConcKeys : ev[k] = NoEnv}
  /\ last = NoCall
  /\ pre = store
  /\ rules = <<>>
  /\ fname = <<>>
  /\ filename = <<>>
  /\ info = NoFile
  /\ reader = IdleReader
  /\ backoff = IdleBackoff /\ ocr = NoOcr

NextConc ==
  \/ \E k \in ConcKeys \cup {"UNKNOWN_KEY"} : GetBegin(k)
  \/ GetExists
  \/ GetFirstValue
  \/ GetReturn
  \/ \E k \in ConcKeys, v \in SetValues : ConcSet(k, v)

SpecConc == InitConc /\ [][NextConc]_vars

\* SpecBackoff: one util_call_with_backoff call, for every script of the
\* callable; its steps are taken until it ends.
InitBackoff ==
  /\ store = [k \in Keys |-> NoRow]
  /\ env = [k \in Keys |-> NoEnv]
  /\ last = NoCall
  /\ pre = store
  /\ rules = <<>>
  /\ fname = <<>>
  /\ filename = <<>>
  /\ info = NoFile
  /\ reader = IdleReader
  /\ backoff \in {StartBackoff(s, k) : s \in Scripts, k \in BOOLEAN}
  /\ ocr = NoOcr

NextBackoff == Attempt \/ Sleep \/ Finish

SpecBackoff == InitBackoff /\ [][NextBackoff]_vars

\* The call is a sequential program: a step that can be taken is taken.
SpecBackoffLive == SpecBackoff /\ WF_vars(NextBackoff)

\* SpecOcr: one get_ocr_settings call.  The row holds a value for one
\* option (and None for the others) and some user_args; the settings hold
\* some value for that option and some OCR_USER_ARGS.
DefaultSettings == [o \in Options |-> CHOOSE v \in SettingValues(o) : v # NoneV]

InitOcr ==
  /\ store = [k \in Keys |-> NoRow]
  /\ env = [k \in Keys |-> NoEnv]
  /\ last = NoCall
  /\ pre = store
  /\ rules = <<>>
  /\ fname = <<>>
  /\ filename = <<>>
  /\ info = NoFile
  /\ reader = IdleReader
  /\ backoff = IdleBackoff
  /\ \E o \in Options, has_row \in BOOLEAN :
       \E v \in StoredValues(o), s \in SettingValues(o),
          ua \in StoredUserArgs, text \in UserArgsTexts :
         ocr = [NoOcr EXCEPT
                  !.has_row = has_row,
                  !.row = IF has_row THEN [NoBundle EXCEPT ![o] = v] ELSE NoBundle,
                  !.row_user_args = IF has_row THEN ua ELSE JNull,
                  !.settings = [DefaultSettings EXCEPT ![o] = s],
                  !.OCR_USER_ARGS = text]

NextOcr == GetOcrSettings

SpecOcr == InitOcr /\ [][NextOcr]_vars

(***************************************************************************)
(* Properties of the configuration resolver.                               *)
(***************************************************************************)
\* The last call was set_config and it returned without raising.
SetSucceeded == last.op = "set_config" /\ last.err = "none"

\* The last call was a read of a registered key.
GotRegistered == last.op = "getattr" /\ Registered(last.key)

\* The last call was a read of a registered key, and no write changed the
\* row of the key between its queries (C17 is about the other reads).
GotUndivided == GotRegistered /\ last.undivided

\* s is str(v) for some value v of the declared type of key k.
OfDeclaredType(k, s) ==
  CASE CONFIGURATION_KEYS[k].type = "str" -> TRUE
    [] CONFIGURATION_KEYS[k].type = "int" -> IntParses(s)
    [] OTHER -> s \in {PyStr(BoolV(TRUE)), PyStr(BoolV(FALSE))}

\* C2: after set_config(k, v) succeeds with no PAPERLESS_k in the
\* environment, a read of k returns v itself (same value, same type),
\* whether or not a row for k existed before.
C2_SetThenGetReturnsValue ==
  (SetSucceeded /\ ~env[last.key].set)
    => getattr(store, env, last.key) = Returned(last.arg)

\* C3: set_config(k, v) on a registered key whose declared type is not
\* exactly the type of v raises TypeError and leaves the whole table as
\* it was before the call.
C3_TypeMismatchRejected ==
  (last.op = "set_config" /\ Registered(last.key)
     /\ TypeOf(last.arg) # CONFIGURATION_KEYS[last.key].type)
    => (last.err = "TypeError" /\ store = pre)

\* C3 witness: a bool was offered for an int key that holds a stored
\* value, and the call was rejected.
C3_Witness ==
  /\ last.op = "set_config" /\ last.key = "OCR_IMAGE_DPI"
  /\ last.arg = BoolV(TRUE) /\ last.err = "TypeError"
  /\ store["OCR_IMAGE_DPI"] = Row(<<"1", "0">>)

\* C4: set_config on a key that is not registered raises KeyError for
\* every value and leaves the table as it was.
C4_UnknownKeyRejected ==
  (last.op = "set_config" /\ ~Registered(last.key))
    => (last.err = "KeyError" /\ store = pre)

\* C4 witness: set_config was called on the unregistered key while the
\* table held a row of that key.
C4_Witness ==
  /\ last.op = "set_config" /\ last.key = "UNKNOWN_KEY"
  /\ last.err = "KeyError" /\ store["UNKNOWN_KEY"].row
  /\ last.arg = StrV(<<>>)

\* C5 as stated: a read of a registered key whose row holds a non-null
\* value of the declared type returns that value coerced to the type.
C5_NonNullOverrideWins ==
  (GotRegistered /\ store[last.key].row /\ ~store[last.key].null
     /\ OfDeclaredType(last.key, store[last.key].value))
    => [err |-> last.err, ret |-> last.ret]
         = Coerce(CONFIGURATION_KEYS[last.key].type, store[last.key].value)

\* C5 amended: a read of a registered key whose row holds a non-empty
\* value of the declared type returns that value coerced to the type,
\* whatever the environment and the default are.
C5_NonEmptyOverrideWins ==
  (GotRegistered /\ store[last.key].row /\ ~store[last.key].null
     /\ store[last.key].value # <<>>
     /\ OfDeclaredType(last.key, store[last.key].value))
    => [err |-> last.err, ret |-> last.ret]
         = Coerce(CONFIGURATION_KEYS[last.key].type, store[last.key].value)

\* C5 witness: the key has a stored value and an environment variable, and
\* the read returned the stored value as an int.
C5_Witness ==
  /\ last.op = "getattr" /\ last.key = "OCR_IMAGE_DPI"
  /\ store["OCR_IMAGE_DPI"] = Row(<<"1", "0">>)
  /\ env["OCR_IMAGE_DPI"].set
  /\ last.err = "none" /\ last.ret = IntV(10)

\* C6: a read of a registered key without a stored value, with
\* PAPERLESS_k set to s, returns s as a str, uncoerced, in preference to
\* the default (no write changing the row while the read runs).
C6_EnvironmentReturnedRaw ==
  (GotUndivided /\ ~HasStoredValue(store, last.key) /\ env[last.key].set)
    => (last.err = "none" /\ last.ret = StrV(env[last.key].value))

\* C6 witness: a bool key with default True and no row was read with the
\* environment variable set, and a str came back.
C6_Witness ==
  /\ GotUndivided /\ last.key = "OCR_DESKEW"
  /\ ~store["OCR_DESKEW"].row /\ env["OCR_DESKEW"] = EnvVar(<<"7">>)
  /\ last.ret = StrV(<<"7">>)

\* C7: a read of a registered key with neither a stored value nor an
\* environment variable returns the registry default, None included, and
\* does not raise (no write changing the row while the read runs).
C7_DefaultReturned ==
  (GotUndivided /\ ~HasStoredValue(store, last.key) /\ ~env[last.key].set)
    => (last.err = "none" /\ last.ret = CONFIGURATION_KEYS[last.key].default)

\* C7 witness: a key whose default is None was read with nothing stored
\* and nothing in the environment, and None came back.
C7_Witness ==
  /\ GotUndivided /\ last.key = "OCR_IMAGE_DPI"
  /\ ~HasStoredValue(store, "OCR_IMAGE_DPI") /\ ~env["OCR_IMAGE_DPI"].set
  /\ last.err = "none" /\ last.ret = NoneV

\* C8 as stated: a read of a key that is not registered does not raise.
C8_UnknownKeyReadTolerated ==
  (last.op = "getattr" /\ ~Registered(last.key)) => last.err = "none"

\* C8 amended: a read of a key that is not registered raises
\* AttributeError, whatever the table and the environment hold for it.
C8_UnknownKeyReadRaises ==
  (last.op = "getattr" /\ ~Registered(last.key))
    => (last.err = "AttributeError" /\ last.ret = NoneV)

\* C8 witness: the unregistered key was read while the table held a row of
\* it and the environment a variable for it.
C8_Witness ==
  /\ last.op = "getattr" /\ last.key = "UNKNOWN_KEY"
  /\ store["UNKNOWN_KEY"] = Row(<<"e", "n", "g">>) /\ env["UNKNOWN_KEY"].set
  /\ last.err = "AttributeError"

\* C9: after a successful set_config(k, v) the table holds a row of k
\* whose value is v, whether or not a row of k existed before the call.
C9_SetPersistsOverride ==
  SetSucceeded => store[last.key] = Row(PyStr(last.arg))

(***************************************************************************)
(* Properties of the filename parser.                                      *)
(***************************************************************************)
\* C1: from_filename returns a FileInfo, not None, for every filename,
\* the empty one and those with newlines included.
C1_AlwaysReturnsFileInfo == info.called => ~info.isnone

\* The rules of the configured list that match name at least once.
MatchingRules(rs, name) == {i \in 1..Len(rs) : subn(rs[i], name).count > 0}

FirstMatching(rs, name) ==
  CHOOSE i \in MatchingRules(rs, name) : \A j \in MatchingRules(rs, name) : i <= j

\* C10: the filename that is parsed is the argument with the first
\* matching rule substituted and no other rule applied, and the argument
\* itself when no rule matches.
C10_AtMostOneRewrite ==
  info.called =>
    /\ filename = IF MatchingRules(rules, fname) = {} THEN fname
                  ELSE subn(rules[FirstMatching(rules, fname)], fname).out
    /\ info = ParseComponents(StripExtension(filename))

\* C10 witness: the first rule rewrote "a" to "b", the second rule matches
\* the result, and the result was parsed as it stood.
C10_Witness ==
  /\ info.called
  /\ rules = <<Rule(<<"a">>, <<"b">>), Rule(<<"b">>, <<".">>)>>
  /\ fname = <<"a", ".", "a">>
  /\ filename = <<"b", ".", "b">>
  /\ info.title = <<"b">>

\* The extensionless string the patterns are matched against.
Stem == StripExtension(filename)

\* s is n digits, "Z", " - " and some text; the text.
DatedZ(s, n) ==
  /\ DigitsAtStart(s, n) /\ Len(s) >= n + 4
  /\ s[n + 1] = "Z" /\ s[n + 2] = " " /\ s[n + 3] = "-" /\ s[n + 4] = " "

TextAfter(s, i) == SubSeq(s, i + 1, Len(s))

\* s is n digits, " - " and some text, without the "Z".
DatedNoZ(s, n) ==
  /\ DigitsAtStart(s, n) /\ Len(s) >= n + 3
  /\ s[n + 1] = " " /\ s[n + 2] = "-" /\ s[n + 3] = " "

\* The instant 14 digits YYYYMMDDhhmmss spell, and whether there is one.
Instant(d) ==
  [isnone |-> FALSE, year |-> DigitsToNat(SubSeq(d, 1, 4)),
   month |-> DigitsToNat(SubSeq(d, 5, 6)), day |-> DigitsToNat(SubSeq(d, 7, 8)),
   hour |-> DigitsToNat(SubSeq(d, 9, 10)),
   minute |-> DigitsToNat(SubSeq(d, 11, 12)),
   second |-> DigitsToNat(SubSeq(d, 13, 14))]

IsInstant(d) ==
  LET i == Instant(d)
  IN /\ i.year >= 1 /\ i.month \in 1..12
     /\ i.day >= 1 /\ i.day <= DaysIn(i.year, i.month)
     /\ i.hour <= 23 /\ i.minute <= 59 /\ i.second <= 59

SixZeros == <<"0", "0", "0", "0", "0", "0">>

\* C11: an extensionless filename "<14 digits>Z - <title>" whose digits
\* spell a date-time gives created equal to that instant and title equal
\* to the text after " - ".
C11_FullTimestampParsed ==
  (info.called /\ DatedZ(Stem, 14) /\ IsInstant(SubSeq(Stem, 1, 14)))
    => /\ ~info.isnone
       /\ info.created = Instant(SubSeq(Stem, 1, 14))
       /\ info.title = TextAfter(Stem, 18)

\* C12 as stated: "20230405Z - Invoice.pdf" gives the created value of
\* "20230405120000Z - Invoice.pdf".
C12_DateOnlySameAsNoon ==
  (info.called /\ fname = Invoice8)
    => info.created = from_filename(rules, Invoice14).created

\* C12 amended: an 8-digit date is padded with zeros, so created is
\* midnight of that day: "20230405Z - Invoice.pdf" gives the created value
\* of "20230405000000Z - Invoice.pdf", 2023-04-05T00:00:00Z.
C12_DateOnlyIsMidnight ==
  /\ (info.called /\ fname = Invoice8)
       => /\ info.created = from_filename(rules, InvoiceMidnight).created
          /\ info.created = [isnone |-> FALSE, year |-> 2023, month |-> 4,
                             day |-> 5, hour |-> 0, minute |-> 0, second |-> 0]
  /\ (info.called /\ MatchCreatedTitle(Stem).matched /\ DatedZ(Stem, 8)
        /\ IsInstant(SubSeq(Stem, 1, 8) \o SixZeros))
       => info.created = Instant(SubSeq(Stem, 1, 8) \o SixZeros)

\* C12 witness: the date-only example was parsed to midnight.
C12_Witness ==
  /\ info.called /\ fname = Invoice8 /\ ~info.isnone
  /\ info.created.year = 2023 /\ info.created.hour = 0
  /\ info.title = <<"I", "n", "v", "o", "i", "c", "e">>

\* C13 as stated: "<8 or 14 digits> - <title>" without the "Z" gives a
\* non-null created and the remainder as title.
C13_ZOptional ==
  \A n \in {8, 14} :
    (info.called /\ DatedNoZ(Stem, n)
       /\ IsInstant(SubSeq(Stem, 1, n) \o SubSeq(SixZeros, 1, 14 - n)))
      => /\ ~info.isnone
         /\ ~info.created.isnone
         /\ info.title = TextAfter(Stem, n + 3)

\* C13 amended: the date-prefixed pattern needs the "Z": without it the
\* filename is not date-prefixed, created is null, and the title of the
\* FileInfo returned begins with the digit run.
C13_ZRequired ==
  \A n \in {8, 14} :
    (info.called /\ DatedNoZ(Stem, n))
      => /\ info.created = NoDate
         /\ ~info.isnone =>
              /\ Len(info.title) >= n + 3
              /\ SubSeq(info.title, 1, n + 3) = SubSeq(Stem, 1, n + 3)

\* C13 witness: the example without the "Z" went to the fallback pattern.
C13_Witness ==
  /\ info.called /\ fname = InvoiceNoZ /\ ~info.isnone
  /\ info.created = NoDate
  /\ info.title = SubSeq(InvoiceNoZ, 1, 18)

\* C14: a filename that matches the date-prefixed pattern with digits that
\* spell no date-time gives a FileInfo with created null and the captured
\* title.
C14_BadDateGivesNullCreated ==
  (info.called /\ MatchCreatedTitle(Stem).matched
     /\ ~IsInstant(PadRight(Upto(MatchCreatedTitle(Stem).created,
                                 Len(MatchCreatedTitle(Stem).created)))))
    => /\ ~info.isnone
       /\ info.created = NoDate
       /\ info.title = MatchCreatedTitle(Stem).title

\* C14 witness: month 13 was parsed, the title came back without a date.
C14_Witness ==
  /\ info.called /\ ~info.isnone
  /\ Stem = <<"2", "0", "2", "3", "1", "3", "0", "5", "Z", " ", "-", " ", "a">>
  /\ info.created = NoDate /\ info.title = <<"a">>

\* C15: a rewritten filename that starts with "." and has no extension to
\* split off is matched as the empty string: title "" and created null.
C15_DotFileGivesEmptyTitle ==
  (info.called /\ filename # <<>> /\ filename[1] = "."
     /\ splitext(filename) = filename)
    => info = FileInfo(NoDate, <<>>)

\* C15 witness: ".pdf" was parsed.
C15_Witness ==
  /\ info.called /\ fname = DotPdf /\ filename = DotPdf
  /\ ~info.isnone /\ info.title = <<>>

\* C16: a filename whose extensionless form does not match the
\* date-prefixed pattern gives created null and the whole extensionless
\* string as title.
C16_FallbackTitleIsWholeString ==
  (info.called /\ ~MatchCreatedTitle(Stem).matched)
    => /\ ~info.isnone
       /\ info.created = NoDate
       /\ info.title = Stem

(***************************************************************************)
(* Properties of reads beside concurrent writes.                           *)
(***************************************************************************)
\* C17: a read of k that runs beside set_config(k, .) calls returns what an
\* undivided read would return in the state before or the state after one
\* of those calls.
C17_ReadSeesOldOrNew ==
  reader.pc = "done" => reader.out \in reader.adm

(***************************************************************************)
(* Properties of util_call_with_backoff.                                   *)
(***************************************************************************)
BackoffEnded == backoff.pc \in {"returned", "skipped", "raised"}

\* The invocations before the last one made: none of them returned.
NoCallAfterSuccess ==
  \A i \in DOMAIN backoff.seen :
    i < Len(backoff.seen) => backoff.seen[i].kind # "return"

ReturnedAfterSuccess ==
  (backoff.pc = "returned" /\ backoff.seen # <<>>
     /\ backoff.seen[Len(backoff.seen)].kind = "return")
    => backoff.ret = [succeeded |-> TRUE, result |-> ResultOf(Len(backoff.seen))]

AllAttemptsCaught ==
  /\ Len(backoff.seen) = max_retry_count
  /\ \A i \in DOMAIN backoff.seen : Caught(backoff.seen[i])

ReturnedAfterFailures ==
  (BackoffEnded /\ AllAttemptsCaught /\ backoff.pc # "skipped")
    => /\ backoff.pc = "returned"
       /\ backoff.ret = [succeeded |-> FALSE, result |-> NoneV]

\* C21: the callable is invoked at most 3 times and not again after an
\* invocation that returned; the call then returns (True, that result); when
\* 3 invocations raised an Exception and the run is not skipped it returns
\* (False, None); and every call ends.
C21_BoundedRetries ==
  /\ [](/\ Len(backoff.seen) <= max_retry_count
        /\ NoCallAfterSuccess
        /\ ReturnedAfterSuccess
        /\ ReturnedAfterFailures)
  /\ <>BackoffEnded

\* A call that returned (True, 2) after one failure, and so never made the
\* third invocation.
C21_Witness ==
  /\ backoff.pc = "returned"
  /\ Len(backoff.seen) = 2
  /\ Caught(backoff.seen[1])
  /\ backoff.ret = [succeeded |-> TRUE, result |-> ResultOf(2)]

\* C22: every wait follows a failed attempt, and the waits are 20s, 40s
\* and 80s, each double the one before; no wait follows an attempt that
\* succeeded.
C22_WaitsOnlyAfterFailure ==
  \A i \in DOMAIN backoff.slept :
    /\ backoff.slept[i].after = "failure"
    /\ backoff.slept[i].secs = InitialRetryTime * (2 ^ (i - 1))

(***************************************************************************)
(* Properties of get_ocr_settings.                                         *)
(***************************************************************************)
OcrReturned == ocr.called /\ ocr.raised = ""

\* C23: every option of the bundle is the row's value when the row holds a
\* non-null value for it, False and 0 included, and the application setting
\* only when the row holds None.
C23_StoredValueWins ==
  OcrReturned =>
    \A o \in Options :
      ocr.out[o] = IF ocr.row[o] # NoneV THEN ocr.row[o] ELSE ocr.settings[o]

\* C24: user_args is the row's user_args when that is non-empty; else the
\* JSON-decoded settings.OCR_USER_ARGS when that setting is not None; else
\* None.
C24_UserArgsLayers ==
  OcrReturned =>
    /\ JTruthy(ocr.row_user_args) => ocr.user_args = ocr.row_user_args
    /\ (~JTruthy(ocr.row_user_args) /\ ~ocr.OCR_USER_ARGS.none)
         => /\ JsonLoads(ocr.OCR_USER_ARGS.text).ok
            /\ ocr.user_args = JsonLoads(ocr.OCR_USER_ARGS.text).v
    /\ (~JTruthy(ocr.row_user_args) /\ ocr.OCR_USER_ARGS.none)
         => ocr.user_args = JNull

\* The row holds an empty user_args and the setting's text was decoded to
\* a non-empty object.
C24_Witness ==
  /\ OcrReturned
  /\ ocr.row_user_args = JDict(<<>>)
  /\ ~ocr.OCR_USER_ARGS.none
  /\ ocr.user_args.t = "dict"
  /\ ocr.user_args.m # <<>>

====
